---- MODULE Spec2Model ----
(***************************************************************************)
(* Delta synchronisation of a device camera directory to a local folder,   *)
(* as implemented three times in the repository:                           *)
(*   "camera"  camera.py  sync_files      (adb sync, then find/pull)       *)
(*   "org"     camera.py  sync_files_org  (find/pull on REMOTE_DIR)        *)
(*   "rsync"   adb-rsync.py  main / sync_directory / sync_file             *)
(* A path is a sequence of components; a component is a record             *)
(* [pre, stem, ext] standing for the name  pre ++ stem ++ "." ++ ext       *)
(* (pre is "" or a leading "." marker such as ".trashed-").                *)
(***************************************************************************)
EXTENDS Integers, Sequences, FiniteSets, TLC

VARIABLES
    variant,      \* which program runs: "camera", "org" or "rsync"
    remoteFS,     \* device file system: absolute path -> file or directory
    local,        \* local files: path relative to the local root -> file
    localDirs,    \* local directories that exist, relative to the local root
    run,          \* number of the current run of the program
    pc,           \* position of the current run
    deviceUp,     \* a device is connected during the current run
    remote_files, \* the remote listing of the current run (relative paths)
    to_download,  \* the plan of the current run: sorted sequence of paths
    idx,          \* loop index into to_download
    success,      \* succeeded counter of the current frame / run
    stack,        \* adb-rsync: frames of the sync_directory recursion
    exit,         \* exit status of the finished run, -1 while running
    report,       \* what the run reported at its end
    pulls,        \* every pull issued in this run, in order: [rel, ok]
    planned,      \* the run has settled which files it transfers
    digests,      \* adb-rsync: the files whose remote MD5 this run obtained
    listFailed,   \* the command listing the remote root failed in this run
    prev,         \* the previous run: [planned, plan, fetched, kind, listing]
    mode,         \* adb-rsync: "sync", "dry_run" (--dry-run) or "list_only"
    printed,      \* adb-rsync: the remote paths the list mode printed
    \* scale-1280x720.py
    source,       \* the names in the source directory
    date_opt,     \* args.date: a YYYYMMDD string, "" when -D is not given
    threads,      \* args.threads: max_workers of the pool
    dst_dirs,     \* the date directories that exist below the destination
    dst_files,    \* the output files that exist below the destination
    mp4_files,    \* the files main selected, in submission order
    main_pc,      \* position of the main thread
    futures,      \* state of the future of each submitted task
    task_pc,      \* position of each submitted task inside process_file
    joined,       \* number of futures whose result() has returned
    ffmpeg_runs,  \* the files ffmpeg was invoked for, in order
    scale_exit,   \* exit status of the transcode run, -1 while running
    scale_run,    \* number of the current transcode run
    dst_at_start, \* the output files that existed when the current run began
    \* camera.py main
    argv,         \* the options of the command line
    args,         \* the namespace parse_args() returned
    cli_pc,       \* position of main
    outcome,      \* what main did: [action, exit, target]
    \* merge-shrink-180.py
    ms_args,      \* the command line: [input_dir, date_prefix, output_file]
    ms_listing,   \* the names in the input directory, each with its seconds
    ms_cwd,       \* the files of the working directory: name -> content
    ms_pc,        \* position of main
    ms_merged,    \* what merge_videos returned
    ms_final,     \* final_output, "" while unset
    \* camera.py main, the merge / shorten / slice modes
    ed_args,      \* the options: [merge, shorten, slice, name]
    ed_files,     \* files_to_process
    ed_fs,        \* the files the modes touch: path -> content
    ed_pc,        \* position of main
    ed_i,         \* loop index into files_to_process
    ed_exit,      \* exit status, -1 while running
    ed_calls      \* the ffmpeg steps so far, in order: [tool, file, outcome]

\* the state of the synchronisation programs
syncVars == <<variant, remoteFS, local, localDirs, run, pc, deviceUp, remote_files,
              to_download, idx, success, stack, exit, report, pulls, planned,
              digests, listFailed, prev, mode, printed>>
\* the state of the other tools of the repository
poolVars == <<source, date_opt, threads, dst_dirs, dst_files, mp4_files, main_pc,
              futures, task_pc, joined, ffmpeg_runs, scale_exit, scale_run, dst_at_start>>
cliVars == <<argv, args, cli_pc, outcome>>
mergeVars == <<ms_args, ms_listing, ms_cwd, ms_pc, ms_merged, ms_final>>
editVars == <<ed_args, ed_files, ed_fs, ed_pc, ed_i, ed_exit, ed_calls>>
toolVars == <<poolVars, cliVars, mergeVars, editVars>>

vars == <<syncVars, toolVars>>

----------------------------------------------------------------------------
(* Bounds of the model *)

\* a run is followed by at most MaxRuns - 1 further runs
MaxRuns == 2
\* the device holds at most MaxRemote entries
MaxRemote == 2
\* the local folder initially holds at most MaxLocal files
MaxLocal == 2

----------------------------------------------------------------------------
(* Names and paths *)

D(s) == [pre |-> "", stem |-> s, ext |-> ""]
F(p, s, e) == [pre |-> p, stem |-> s, ext |-> e]

\* str.startswith("."): camera.py 316, 331
IsHidden(c) == c.pre # ""
\* find -not -name '.trashed*': camera.py 249
IsTrashed(c) == c.pre = ".trashed-"

\* find -iname '*.mp4' -o -iname '*.jpg' -o -iname '*.jpeg' -o -iname '*.heic'
LowerExt(e) ==
    CASE e = "MP4" -> "mp4"
      [] e = "JPG" -> "jpg"
      [] OTHER -> e
IsMedia(c) == LowerExt(c.ext) \in {"mp4", "jpg", "jpeg", "heic"}

Last(s) == s[Len(s)]
IsPrefix(p, s) == Len(p) <= Len(s) /\ SubSeq(s, 1, Len(p)) = p
Drop(s, n) == SubSeq(s, n + 1, Len(s))
\* every proper directory prefix of a relative path, the root <<>> included
Parents(rel) == {SubSeq(rel, 1, n) : n \in 0..(Len(rel) - 1)}
\* a step that leaves the directory unmade
MakeDirsForgotten(dirs, d) == dirs
\* os.makedirs(d, exist_ok=True) / Path(d).mkdir(parents=True, exist_ok=True)
MakeDirs(dirs, d) == dirs \cup Parents(d) \cup {d}

\* REMOTE_DIR = "/sdcard/DCIM/Camera"
REMOTE_DIR == <<D("sdcard"), D("DCIM"), D("Camera")>>

possible_bases == <<
    <<D("sdcard"), D("DCIM"), D("Camera")>>,
    <<D("storage"), D("emulated"), D("0"), D("DCIM"), D("Camera")>>,
    <<D("sdcard"), D("Android"), D("data"), D("com.android.providers.media"),
      D("files"), D("DCIM")>>,
    <<D("storage"), D("emulated"), D("0"), D("Android"), D("data"),
      D("com.android.providers.media"), D("files"), D("DCIM")>> >>

\* the prefixes a listed line is cut at: camera.py 313
split_prefixes == << <<D("DCIM"), D("Camera")>>,
                     <<D("100ANDRO"), D("Camera")>>,
                     <<D("Camera")>> >>

\* the prefixes a source path is rebuilt with: camera.py 347
source_prefixes == << <<>>,
                      <<D("DCIM"), D("Camera")>>,
                      <<D("100ANDRO"), D("Camera")>>,
                      <<D("Camera")>> >>

----------------------------------------------------------------------------
(* Files and stores *)

\* what a pull leaves as the modification time of the file it wrote
\* (adb pull without -a does not carry the remote time over)
PullTime == "tnow"

RemoteFile(sz, tg, mt) == [kind |-> "file", size |-> sz, tag |-> tg, mtime |-> mt]
RemoteDirEntry == [kind |-> "dir", size |-> 0, tag |-> "", mtime |-> "t1"]
LocalFile(sz, tg, mt) == [size |-> sz, tag |-> tg, mtime |-> mt]

PathA == REMOTE_DIR \o <<F("", "a", "mp4")>>
PathB == REMOTE_DIR \o <<D("sub"), F("", "b", "JPG")>>
PathC == REMOTE_DIR \o <<F(".trashed-", "c", "mp4")>>
PathD == possible_bases[3] \o <<D("2024"), D("Camera"), F("", "d", "mp4")>>
PathN == REMOTE_DIR \o <<F("", "n", "txt")>>
PathE == REMOTE_DIR \o <<D("empty")>>

\* everything the device may hold in the model
RemoteUniverse ==
    (PathA :> RemoteFile(10, "x", "t1")) @@
    (PathB :> RemoteFile(20, "y", "t2")) @@
    (PathC :> RemoteFile(10, "z", "t1")) @@
    (PathD :> RemoteFile(20, "w", "t1")) @@
    (PathN :> RemoteFile(10, "v", "t2")) @@
    (PathE :> RemoteDirEntry) @@
    (REMOTE_DIR :> RemoteDirEntry)

RelA == <<F("", "a", "mp4")>>
RelB == <<D("sub"), F("", "b", "JPG")>>
RelK == <<F("", "keep", "mp4")>>

\* what the local folder may hold before the first run: <<path, file>>
LocalUniverse == {
    <<RelA, LocalFile(10, "x", "t1")>>,     \* same as the remote a.mp4
    <<RelA, LocalFile(10, "x", "t2")>>,     \* same content, other time
    <<RelA, LocalFile(5, "u", "t1")>>,      \* other size
    <<RelB, LocalFile(20, "y", "t2")>>,     \* same as the remote sub/b.JPG
    <<RelK, LocalFile(10, "k", "t1")>> }    \* a file the device does not hold

Restrict(f, S) == [x \in S |-> f[x]]
Min(S) == CHOOSE x \in S : \A y \in S : x <= y
Range(s) == {s[i] : i \in 1..Len(s)}

RemoteStores ==
    {Restrict(RemoteUniverse, S) :
        S \in {T \in SUBSET (DOMAIN RemoteUniverse) : Cardinality(T) <= MaxRemote}}

LocalStores ==
    {[rel \in {e[1] : e \in S} |-> (CHOOSE e \in S : e[1] = rel)[2]] :
        S \in {T \in SUBSET LocalUniverse :
                 /\ Cardinality(T) <= MaxLocal
                 /\ \A e1, e2 \in T : e1[1] = e2[1] => e1 = e2}}

IsRemoteFile(p) == p \in DOMAIN remoteFS /\ remoteFS[p].kind = "file"
\* test -d: an explicit directory, or a directory some entry lies below
IsRemoteDir(p) ==
    \/ p \in DOMAIN remoteFS /\ remoteFS[p].kind = "dir"
    \/ \E q \in DOMAIN remoteFS : IsPrefix(p, q) /\ Len(q) > Len(p)

\* the content digest: equal exactly for equal content, whatever the times
MD5(f) == <<f.size, f.tag>>

\* a pull that mirrors: it also drops what the device does not hold
PulledMirror(store, rel, src) ==
    [r \in {rel} \cup {q \in DOMAIN store : IsRemoteFile(REMOTE_DIR \o q)} |->
        IF r = rel
        THEN LocalFile(remoteFS[src].size, remoteFS[src].tag, PullTime)
        ELSE store[r]]
\* a pull that writes its file somewhere else than asked
PulledElsewhere(store, rel, src) == store
\* adb pull src dst, succeeded: dst holds the content of src
Pulled(store, rel, src) ==
    [r \in (DOMAIN store) \cup {rel} |->
        IF r = rel
        THEN LocalFile(remoteFS[src].size, remoteFS[src].tag, PullTime)
        ELSE store[r]]

----------------------------------------------------------------------------
(* Ordering of names, as sorted() and ls order them *)

StemRank(c) ==
    CASE c.pre # "" -> 0
      [] c.stem = "2024" -> 1
      [] c.stem = "Camera" -> 2
      [] c.stem = "a" -> 3
      [] c.stem = "b" -> 4
      [] c.stem = "d" -> 5
      [] c.stem = "empty" -> 6
      [] c.stem = "keep" -> 7
      [] c.stem = "n" -> 8
      [] c.stem = "sub" -> 9
      [] OTHER -> 10

PathLeq(x, y) ==
    LET n == IF Len(x) <= Len(y) THEN Len(x) ELSE Len(y)
        diff == {i \in 1..n : StemRank(x[i]) # StemRank(y[i])}
    IN  IF diff = {} THEN Len(x) <= Len(y)
        ELSE StemRank(x[Min(diff)]) < StemRank(y[Min(diff)])

RECURSIVE SortedSeq(_)
SortedSeq(S) ==
    IF S = {} THEN <<>>
    ELSE LET m == CHOOSE x \in S : \A y \in S : PathLeq(x, y)
         IN  <<m>> \o SortedSeq(S \ {m})

----------------------------------------------------------------------------
(* Listings and the delta *)

\* adb shell find 'base' -type f \( -iname ... \): the lines one base yields
FindMedia(base) ==
    {p \in DOMAIN remoteFS :
        /\ remoteFS[p].kind = "file"
        /\ IsPrefix(base, p) /\ Len(p) > Len(base)
        /\ IsMedia(Last(p))}

\* the positions at which "/prefix/" occurs in a listed line
Occurs(prefix, line) ==
    {i \in 1..Len(line) :
        /\ i + Len(prefix) - 1 < Len(line)
        /\ SubSeq(line, i, i + Len(prefix) - 1) = prefix}

\* the relative path a listed line contributes, <<>> when it contributes none:
\* cut after the first prefix the line contains, drop names starting with "."
RelPath(line) ==
    LET hits == {k \in 1..Len(split_prefixes) : Occurs(split_prefixes[k], line) # {}}
    IN  IF hits = {} THEN <<>>
        ELSE LET pre == split_prefixes[Min(hits)]
                 rel == Drop(line, Min(Occurs(pre, line)) + Len(pre) - 1)
             IN  IF IsHidden(Last(rel)) THEN <<>> ELSE rel

\* remote_files of sync_files when the find commands of the bases B gave
\* their output
RemoteListingOf(B) ==
    UNION {{RelPath(p) : p \in FindMedia(possible_bases[b])} : b \in B} \ {<<>>}
\* remote_files of sync_files once every base has been searched
RemoteListing == RemoteListingOf(1..Len(possible_bases))

\* local_files of sync_files
LocalListing(store) == {rel \in DOMAIN store : ~IsHidden(Last(rel))}

\* get_file_list(REMOTE_DIR, is_remote=True)
OrgRemoteListing ==
    {Drop(p, Len(REMOTE_DIR)) :
        p \in {q \in DOMAIN remoteFS :
                 /\ remoteFS[q].kind = "file"
                 /\ IsPrefix(REMOTE_DIR, q) /\ Len(q) > Len(REMOTE_DIR)
                 /\ ~IsTrashed(Last(q))}}

\* get_file_list(LOCAL_DIR, is_remote=False)
OrgLocalListing(store) == DOMAIN store

\* a delta that forgets to take the local listing away
ComputeDeltaAll(R, L) == SortedSeq(R)
\* to_download = sorted(remote_files - local_files)
ComputeDelta(R, L) == SortedSeq(R \ L)

\* the source path the pull loop settles on for rel, <<>> when it finds none
Candidate(n, rel) ==
    possible_bases[(n \div Len(source_prefixes)) + 1]
        \o source_prefixes[(n % Len(source_prefixes)) + 1] \o rel
SourcePath(rel) ==
    LET ok == {n \in 0..(Len(possible_bases) * Len(source_prefixes) - 1) :
                  IsRemoteFile(Candidate(n, rel))}
    IN  IF ok = {} THEN <<>> ELSE Candidate(Min(ok), rel)

\* ls -la of one remote directory: the names directly below it, ls order
Children(dir) ==
    {q[Len(dir) + 1] :
        q \in {p \in DOMAIN remoteFS : IsPrefix(dir, p) /\ Len(p) > Len(dir)}}
RECURSIVE SortedNames(_)
SortedNames(S) ==
    IF S = {} THEN <<>>
    ELSE LET m == CHOOSE x \in S : \A y \in S : StemRank(x) <= StemRank(y)
         IN  <<m>> \o SortedNames(S \ {m})
list_remote_dir(dir) == SortedNames(Children(dir))

----------------------------------------------------------------------------
(* The state after construction *)

NoReport == [kind |-> "none", succeeded |-> 0, attempted |-> 0]
NoPrev == [planned |-> FALSE, plan |-> {}, fetched |-> {}, kind |-> "none",
           listing |-> {}]

\* the state in which a run of a synchronisation program starts
SyncInit ==
    /\ remoteFS \in RemoteStores
    /\ local \in LocalStores
    /\ localDirs = UNION {Parents(rel) : rel \in DOMAIN local}
    /\ run = 1
    /\ pc = "start"
    /\ deviceUp \in BOOLEAN
    /\ remote_files = {}
    /\ to_download = <<>>
    /\ idx = 1
    /\ success = 0
    /\ stack = <<>>
    /\ exit = -1
    /\ report = NoReport
    /\ pulls = <<>>
    /\ planned = FALSE
    /\ digests = {}
    /\ listFailed = FALSE
    /\ prev = NoPrev
    /\ printed = {}

\* scale-1280x720.py is not running
PoolIdle ==
    /\ source = {} /\ date_opt = "" /\ threads = 0
    /\ dst_dirs = {} /\ dst_files = {}
    /\ mp4_files = <<>> /\ main_pc = "idle"
    /\ futures = <<>> /\ task_pc = <<>> /\ joined = 0
    /\ ffmpeg_runs = <<>> /\ scale_exit = -1 /\ scale_run = 0
    /\ dst_at_start = {}

\* camera.py main is not running
CliIdle == argv = <<>> /\ args = <<>> /\ cli_pc = "idle" /\ outcome = <<>>

\* merge-shrink-180.py is not running
MergeIdle ==
    /\ ms_args = <<>> /\ ms_listing = <<>> /\ ms_cwd = <<>>
    /\ ms_pc = "idle" /\ ms_merged = FALSE /\ ms_final = ""

\* the merge / shorten / slice modes of camera.py are not running
EditIdle ==
    /\ ed_args = <<>> /\ ed_files = <<>> /\ ed_fs = <<>>
    /\ ed_pc = "idle" /\ ed_i = 1 /\ ed_exit = -1 /\ ed_calls = <<>>

\* the tools that are not running
ToolsIdle == PoolIdle /\ CliIdle /\ MergeIdle /\ EditIdle

\* no synchronisation program is running
SyncIdle ==
    /\ variant = "none" /\ mode = "none"
    /\ remoteFS = <<>> /\ local = <<>> /\ localDirs = {}
    /\ run = 0 /\ pc = "idle" /\ deviceUp = FALSE
    /\ remote_files = {} /\ to_download = <<>> /\ idx = 1 /\ success = 0
    /\ stack = <<>> /\ exit = -1 /\ report = NoReport /\ pulls = <<>>
    /\ planned = FALSE /\ digests = {} /\ listFailed = FALSE
    /\ prev = NoPrev /\ printed = {}

Init ==
    /\ variant \in {"camera", "org", "rsync"}
    /\ mode = "sync"
    /\ SyncInit
    /\ ToolsIdle

\* the process ends: sys.exit(code) / return from main
Finish(code, kind, s, a) ==
    /\ pc' = "done"
    /\ exit' = code
    /\ report' = [kind |-> kind, succeeded |-> s, attempted |-> a]

\* the files the current run set out to transfer
Plan == IF variant = "rsync" THEN {pulls[i].rel : i \in 1..Len(pulls)}
        ELSE Range(to_download)
\* the files a pull of the current run brought over
Fetched == {pulls[i].rel : i \in {j \in 1..Len(pulls) : pulls[j].ok}}

----------------------------------------------------------------------------
(* camera.py sync_files *)

\* check_adb(): adb get-state fails without a device, sys.exit(1)
CamCheckAdb ==
    /\ variant = "camera" /\ pc = "start"
    /\ IF deviceUp
       THEN pc' = "adb_sync" /\ UNCHANGED <<exit, report>>
       ELSE Finish(1, "fatal", 0, 0)
    /\ UNCHANGED <<variant, remoteFS, local, localDirs, run, deviceUp, remote_files,
                   to_download, idx, success, stack, pulls, planned, digests,
                   listFailed, prev>>
    /\ UNCHANGED <<mode, printed, toolVars>>

\* what a successful adb sync is taken to have done (camera.py 289-291):
\* every listed file the local folder lacks has been brought over
AdbSynced(store) ==
    LET new == {rel \in RemoteListing : rel \notin DOMAIN store /\ SourcePath(rel) # <<>>}
    IN  [rel \in (DOMAIN store) \cup new |->
            IF rel \in DOMAIN store THEN store[rel]
            ELSE LocalFile(remoteFS[SourcePath(rel)].size,
                           remoteFS[SourcePath(rel)].tag, PullTime)]

\* os.makedirs(LOCAL_DIR); adb sync; return when its returncode is 0
CamAdbSync ==
    /\ variant = "camera" /\ pc = "adb_sync"
    /\ \E rc \in {0, 1} :
         IF rc = 0
         THEN /\ local' = AdbSynced(local)
              /\ localDirs' = MakeDirs(localDirs, <<>>)
                                \cup UNION {Parents(rel) : rel \in DOMAIN AdbSynced(local)}
              /\ Finish(0, "adb_sync", 0, 0)
         ELSE /\ localDirs' = MakeDirs(localDirs, <<>>)
              /\ pc' = "list"
              /\ UNCHANGED <<local, exit, report>>
    /\ UNCHANGED <<variant, remoteFS, run, deviceUp, remote_files,
                   to_download, idx, success, stack, pulls, planned, digests,
                   listFailed, prev>>
    /\ UNCHANGED <<mode, printed, toolVars>>

\* the bases that exist on the device: a find on another base yields nothing
ExistingBases == {b \in 1..Len(possible_bases) : IsRemoteDir(possible_bases[b])}

\* the find over possible_bases, each command failing or not on its own (a
\* failed one contributes no line); nothing found: warning and return
CamListRemote ==
    /\ variant = "camera" /\ pc = "list"
    /\ \E okBases \in SUBSET ExistingBases :
         /\ remote_files' = RemoteListingOf(okBases)
         /\ listFailed' = (ExistingBases # {} /\ okBases = {})
         /\ IF remote_files' = {}
            THEN Finish(0, "no_remote", 0, 0)
            ELSE pc' = "diff" /\ UNCHANGED <<exit, report>>
    /\ UNCHANGED <<variant, remoteFS, local, localDirs, run, deviceUp,
                   to_download, idx, success, stack, pulls, planned, digests, prev>>
    /\ UNCHANGED <<mode, printed, toolVars>>

\* local_files, to_download; nothing to download: return
CamDiff ==
    /\ variant = "camera" /\ pc = "diff"
    /\ to_download' = ComputeDelta(remote_files, LocalListing(local))
    /\ planned' = TRUE
    /\ IF to_download' = <<>>
       THEN Finish(0, "up_to_date", 0, 0) /\ UNCHANGED <<idx, success>>
       ELSE pc' = "pull" /\ idx' = 1 /\ success' = 0 /\ UNCHANGED <<exit, report>>
    /\ UNCHANGED <<variant, remoteFS, local, localDirs, run, deviceUp, remote_files,
                   stack, pulls, digests,
                   listFailed, prev>>
    /\ UNCHANGED <<mode, printed, toolVars>>

\* one iteration of the download loop
CamPull ==
    /\ variant = "camera" /\ pc = "pull" /\ idx <= Len(to_download)
    /\ LET rel == to_download[idx]
           src == SourcePath(rel)
       IN  IF src = <<>>
           THEN UNCHANGED <<local, localDirs, success, pulls>>
           ELSE /\ localDirs' = MakeDirs(localDirs, SubSeq(rel, 1, Len(rel) - 1))
                /\ \E ok \in BOOLEAN :
                     /\ pulls' = Append(pulls, [rel |-> rel, ok |-> ok])
                     /\ IF ok
                        THEN local' = Pulled(local, rel, src) /\ success' = success + 1
                        ELSE UNCHANGED <<local, success>>
    /\ idx' = idx + 1
    /\ UNCHANGED <<variant, remoteFS, run, pc, deviceUp, remote_files, to_download,
                   stack, exit, report, planned, digests,
                   listFailed, prev>>
    /\ UNCHANGED <<mode, printed, toolVars>>

\* the summary line after the loop; main returns
CamReport ==
    /\ variant = "camera" /\ pc = "pull" /\ idx > Len(to_download)
    /\ Finish(0, "summary", success, Len(to_download))
    /\ UNCHANGED <<variant, remoteFS, local, localDirs, run, deviceUp, remote_files,
                   to_download, idx, success, stack, pulls, planned, digests,
                   listFailed, prev>>
    /\ UNCHANGED <<mode, printed, toolVars>>

----------------------------------------------------------------------------
(* camera.py sync_files_org *)

\* check_adb(); check_remote_dir(); os.makedirs(LOCAL_DIR)
OrgCheck ==
    /\ variant = "org" /\ pc = "start"
    /\ IF deviceUp /\ IsRemoteDir(REMOTE_DIR)
       THEN /\ localDirs' = MakeDirs(localDirs, <<>>)
            /\ pc' = "list"
            /\ UNCHANGED <<exit, report>>
       ELSE Finish(1, "fatal", 0, 0) /\ UNCHANGED localDirs
    /\ UNCHANGED <<variant, remoteFS, local, run, deviceUp, remote_files,
                   to_download, idx, success, stack, pulls, planned, digests,
                   listFailed, prev>>
    /\ UNCHANGED <<mode, printed, toolVars>>

\* get_file_list(REMOTE_DIR, True): a failing find raises out of the program
OrgListRemote ==
    /\ variant = "org" /\ pc = "list"
    /\ \E ok \in BOOLEAN :
         /\ listFailed' = ~ok
         /\ IF ok
            THEN /\ remote_files' = OrgRemoteListing
                 /\ pc' = "diff"
                 /\ UNCHANGED <<exit, report>>
            ELSE Finish(1, "crash", 0, 0) /\ UNCHANGED remote_files
    /\ UNCHANGED <<variant, remoteFS, local, localDirs, run, deviceUp,
                   to_download, idx, success, stack, pulls, planned, digests, prev>>
    /\ UNCHANGED <<mode, printed, toolVars>>

\* local listing, new_files; nothing new: return
OrgDiff ==
    /\ variant = "org" /\ pc = "diff"
    /\ to_download' = ComputeDelta(remote_files, OrgLocalListing(local))
    /\ planned' = TRUE
    /\ IF to_download' = <<>>
       THEN Finish(0, "up_to_date", 0, 0) /\ UNCHANGED idx
       ELSE pc' = "pull" /\ idx' = 1 /\ UNCHANGED <<exit, report>>
    /\ UNCHANGED <<variant, remoteFS, local, localDirs, run, deviceUp, remote_files,
                   success, stack, pulls, digests,
                   listFailed, prev>>
    /\ UNCHANGED <<mode, printed, toolVars>>

\* one iteration of the loop: the pull runs with check=True and nothing
\* catches the CalledProcessError of a failed pull
OrgPull ==
    /\ variant = "org" /\ pc = "pull" /\ idx <= Len(to_download)
    /\ LET rel == to_download[idx]
       IN  /\ localDirs' = MakeDirs(localDirs, SubSeq(rel, 1, Len(rel) - 1))
           /\ \E ok \in BOOLEAN :
                /\ pulls' = Append(pulls, [rel |-> rel, ok |-> ok])
                /\ IF ok
                   THEN /\ local' = Pulled(local, rel, REMOTE_DIR \o rel)
                        /\ idx' = idx + 1
                        /\ UNCHANGED <<pc, exit, report>>
                   ELSE /\ Finish(1, "crash", 0, 0)
                        /\ UNCHANGED <<local, idx>>
    /\ UNCHANGED <<variant, remoteFS, run, deviceUp, remote_files, to_download,
                   success, stack, planned, digests,
                   listFailed, prev>>
    /\ UNCHANGED <<mode, printed, toolVars>>

\* the closing message after the loop
OrgDone ==
    /\ variant = "org" /\ pc = "pull" /\ idx > Len(to_download)
    /\ Finish(0, "complete", 0, 0)
    /\ UNCHANGED <<variant, remoteFS, local, localDirs, run, deviceUp, remote_files,
                   to_download, idx, success, stack, pulls, planned, digests,
                   listFailed, prev>>
    /\ UNCHANGED <<mode, printed, toolVars>>

----------------------------------------------------------------------------
(* adb-rsync.py *)

\* the output of adb devices, word by word: the header line, then one line
\* per connected device
DevicesOutput ==
    IF deviceUp THEN <<"List", "of", "devices", "attached", "serial", "device">>
    ELSE <<"List", "of", "devices", "attached">>
\* 'device' in devices: a substring test, which the header word "devices" meets
ContainsDevice(words) == \E i \in 1..Len(words) : words[i] \in {"device", "devices"}

\* main: the adb devices check
RsCheckDevices ==
    /\ variant = "rsync" /\ pc = "start"
    /\ IF DevicesOutput = <<>> \/ ~ContainsDevice(DevicesOutput)
       THEN Finish(1, "fatal", 0, 0)
       ELSE pc' = "test_dir" /\ UNCHANGED <<exit, report>>
    /\ UNCHANGED <<variant, remoteFS, local, localDirs, run, deviceUp, remote_files,
                   to_download, idx, success, stack, pulls, planned, digests,
                   listFailed, prev>>
    /\ UNCHANGED <<mode, printed, toolVars>>

\* main: adb shell test -d remote_dir, None when the command fails
RsCheckRemoteDir ==
    /\ variant = "rsync" /\ pc = "test_dir"
    /\ IF deviceUp /\ IsRemoteDir(REMOTE_DIR)
       THEN pc' = "enter" /\ UNCHANGED <<exit, report>>
       ELSE Finish(1, "fatal", 0, 0)
    /\ UNCHANGED <<variant, remoteFS, local, localDirs, run, deviceUp, remote_files,
                   to_download, idx, success, stack, pulls, planned, digests,
                   listFailed, prev>>
    /\ UNCHANGED <<mode, printed, toolVars>>

\* a list mode that only --dry-run selects
IsListModeDryRunOnly(m) == m = "dry_run"
\* main: if args.dry_run or args.list_only
IsListMode(m) == m \in {"dry_run", "list_only"}

\* list_remote_dir(remote_dir, recursive=True), the directory entries left
\* out as main leaves them out when printing: every file below dir that is
\* reached through directories whose ls gave its output (the ls of a directory
\* in failed gave none)
RecursiveFiles(dir, failed) ==
    {p \in DOMAIN remoteFS :
        /\ remoteFS[p].kind = "file"
        /\ IsPrefix(dir, p) /\ Len(p) > Len(dir)
        /\ \A n \in Len(dir)..(Len(p) - 1) : SubSeq(p, 1, n) \notin failed}
\* the directories at or below dir
DirsBelow(dir) ==
    {d \in UNION {{SubSeq(p, 1, n) : n \in Len(dir)..Len(p)} :
                     p \in {q \in DOMAIN remoteFS : IsPrefix(dir, q)}} :
        IsRemoteDir(d)}

Frame(rdir, ldir, files) ==
    [rdir |-> rdir, ldir |-> ldir, files |-> files, i |-> 1,
     success_count |-> 0, total_count |-> 0]

\* sync_directory(args.remote_dir, args.local_dir): nothing listed is False,
\* and main returns 1
RsSyncRoot ==
    /\ variant = "rsync" /\ pc = "enter"
    /\ ~IsListMode(mode)
    /\ localDirs' = MakeDirs(localDirs, <<>>)
    /\ planned' = TRUE
    /\ \E ok \in BOOLEAN :
         LET files == IF ok THEN list_remote_dir(REMOTE_DIR) ELSE <<>>
         IN  /\ listFailed' = ~ok
             /\ IF files = <<>>
                THEN Finish(1, "errors", 0, 0) /\ UNCHANGED stack
                ELSE /\ stack' = <<Frame(REMOTE_DIR, <<>>, files)>>
                     /\ pc' = "walk"
                     /\ UNCHANGED <<exit, report>>
    /\ UNCHANGED <<variant, remoteFS, local, run, deviceUp, remote_files,
                   to_download, idx, success, pulls, digests, prev>>
    /\ UNCHANGED <<mode, printed, toolVars>>

Top == stack[Len(stack)]
SetTop(f) == [stack EXCEPT ![Len(stack)] = f]

\* run_adb_command(command, check) of adb-rsync.py: the output of the command,
\* or "None" when subprocess.run raised CalledProcessError, which it does only
\* for a failed command run with check=True
run_adb_command(ok, check) == IF check /\ ~ok THEN "None" ELSE "stdout"

\* a skip decided on the existence of the local file alone
UpToDateIfExists(store, rel, remote_hash) == rel \in DOMAIN store
\* a skip that takes a remote digest it could not obtain for agreement
UpToDateHashMissing(store, rel, remote_hash) ==
    /\ rel \in DOMAIN store
    /\ remote_hash = <<>> \/ remote_hash = MD5(store[rel])
\* sync_file: the local file exists, both digests were obtained and agree
UpToDate(store, rel, remote_hash) ==
    /\ rel \in DOMAIN store
    /\ remote_hash # <<>>
    /\ MD5(store[rel]) # <<>>
    /\ remote_hash = MD5(store[rel])

\* sync_file on the next entry of the directory, a file
RsSyncFile ==
    /\ variant = "rsync" /\ pc = "walk"
    /\ Top.i <= Len(Top.files)
    /\ IsRemoteFile(Top.rdir \o <<Top.files[Top.i]>>)
    /\ LET src == Top.rdir \o <<Top.files[Top.i]>>
           rel == Top.ldir \o <<Top.files[Top.i]>>
       IN  \E hashed \in BOOLEAN, ok \in BOOLEAN :
             LET remote_hash == IF run_adb_command(hashed, TRUE) # "None"
                                THEN MD5(remoteFS[src]) ELSE <<>>
                 uptodate == UpToDate(local, rel, remote_hash)
                 synced == uptodate \/ run_adb_command(ok, FALSE) # "None"
             IN  /\ (rel \notin DOMAIN local => hashed)
                 /\ (uptodate => ok)
                 /\ digests' = IF rel \in DOMAIN local /\ remote_hash # <<>>
                               THEN digests \cup {rel} ELSE digests
                 /\ IF uptodate
                    THEN UNCHANGED <<local, pulls>>
                    ELSE /\ pulls' = Append(pulls, [rel |-> rel, ok |-> ok])
                         /\ local' = IF ok THEN Pulled(local, rel, src) ELSE local
                 /\ stack' = SetTop([Top EXCEPT
                        !.i = @ + 1,
                        !.total_count = @ + 1,
                        !.success_count = IF synced THEN @ + 1 ELSE @])
    /\ UNCHANGED <<variant, remoteFS, localDirs, run, pc, deviceUp, remote_files,
                   to_download, idx, success, exit, report, planned, listFailed, prev>>
    /\ UNCHANGED <<mode, printed, toolVars>>

\* the next entry is a directory: sync_directory on it; nothing listed there
\* is False at once, else its entries are walked first
RsSyncSubdir ==
    /\ variant = "rsync" /\ pc = "walk"
    /\ Top.i <= Len(Top.files)
    /\ ~IsRemoteFile(Top.rdir \o <<Top.files[Top.i]>>)
    /\ LET rdir == Top.rdir \o <<Top.files[Top.i]>>
           ldir == Top.ldir \o <<Top.files[Top.i]>>
       IN  /\ localDirs' = MakeDirs(localDirs, ldir)
           /\ \E ok \in BOOLEAN :
                LET files == IF ok THEN list_remote_dir(rdir) ELSE <<>>
                IN  IF files = <<>>
                    THEN stack' = SetTop([Top EXCEPT !.i = @ + 1,
                                                     !.total_count = @ + 1])
                    ELSE stack' = Append(SetTop([Top EXCEPT !.total_count = @ + 1]),
                                         Frame(rdir, ldir, files))
    /\ UNCHANGED <<variant, remoteFS, local, run, pc, deviceUp, remote_files,
                   to_download, idx, success, exit, report, pulls, planned, digests,
                   listFailed, prev>>
    /\ UNCHANGED <<mode, printed, toolVars>>

\* return success_count == total_count, to the calling sync_directory or to
\* main, which returns 0 for True and 1 for False
RsReturn ==
    /\ variant = "rsync" /\ pc = "walk"
    /\ Top.i > Len(Top.files)
    /\ LET result == Top.success_count = Top.total_count
           rest == SubSeq(stack, 1, Len(stack) - 1)
       IN  IF rest = <<>>
           THEN /\ Finish(IF result THEN 0 ELSE 1,
                          IF result THEN "complete" ELSE "errors",
                          Top.success_count, Top.total_count)
                /\ stack' = rest
           ELSE /\ stack' = [rest EXCEPT ![Len(rest)] =
                                [@ EXCEPT !.i = @ + 1,
                                          !.success_count = IF result THEN @ + 1 ELSE @]]
                /\ UNCHANGED <<pc, exit, report>>
    /\ UNCHANGED <<variant, remoteFS, local, localDirs, run, deviceUp, remote_files,
                   to_download, idx, success, pulls, planned, digests,
                   listFailed, prev>>
    /\ UNCHANGED <<mode, printed, toolVars>>

\* main in --dry-run or --list-only mode: the recursive listing is printed,
\* directories left out, and main returns 0; sync_directory is not called
RsListMode ==
    /\ variant = "rsync" /\ pc = "enter"
    /\ IsListMode(mode)
    /\ \E failed \in SUBSET DirsBelow(REMOTE_DIR) :
         /\ printed' = RecursiveFiles(REMOTE_DIR, failed)
         /\ listFailed' = (REMOTE_DIR \in failed)
    /\ Finish(0, "listed", 0, 0)
    /\ UNCHANGED <<variant, remoteFS, local, localDirs, run, deviceUp, remote_files,
                   to_download, idx, success, stack, pulls, planned, digests, prev,
                   mode>>
    /\ UNCHANGED toolVars

----------------------------------------------------------------------------
(* a further run of the same program, the device left as it is *)

NextRun ==
    /\ pc = "done" /\ run < MaxRuns
    /\ run' = run + 1
    /\ pc' = "start"
    /\ deviceUp' \in BOOLEAN
    /\ remote_files' = {}
    /\ to_download' = <<>>
    /\ idx' = 1
    /\ success' = 0
    /\ stack' = <<>>
    /\ exit' = -1
    /\ report' = NoReport
    /\ pulls' = <<>>
    /\ planned' = FALSE
    /\ digests' = {}
    /\ listFailed' = FALSE
    /\ prev' = [planned |-> planned, plan |-> Plan, fetched |-> Fetched,
                kind |-> report.kind, listing |-> remote_files]
    /\ UNCHANGED <<variant, remoteFS, local, localDirs>>
    /\ UNCHANGED <<mode, printed, toolVars>>

Next ==
    \/ CamCheckAdb
    \/ CamAdbSync
    \/ CamListRemote
    \/ CamDiff
    \/ CamPull
    \/ CamReport
    \/ OrgCheck
    \/ OrgListRemote
    \/ OrgDiff
    \/ OrgPull
    \/ OrgDone
    \/ RsCheckDevices
    \/ RsCheckRemoteDir
    \/ RsSyncRoot
    \/ RsSyncFile
    \/ RsSyncSubdir
    \/ RsReturn
    \/ NextRun

Spec == Init /\ [][Next]_vars

\* adb-rsync.py alone, in each of its modes
RsyncInit ==
    /\ variant = "rsync"
    /\ mode \in {"sync", "dry_run", "list_only"}
    /\ SyncInit
    /\ ToolsIdle

RsyncNext ==
    \/ RsCheckDevices
    \/ RsCheckRemoteDir
    \/ RsListMode
    \/ RsSyncRoot
    \/ RsSyncFile
    \/ RsSyncSubdir
    \/ RsReturn

RsyncSpec == RsyncInit /\ [][RsyncNext]_vars

----------------------------------------------------------------------------
(* scale-1280x720.py: the transcode of a directory on a thread pool *)

\* the source directory holds at most MaxFiles names
MaxFiles == 2
\* -t / --threads is at most MaxThreads
MaxThreads == 2

\* a file name: head is its first characters (eight where it has as many),
\* tail the rest before the extension
Name(h, t, e) == [head |-> h, tail |-> t, ext |-> e]

SourceUniverse == {
    Name("20240101", "_a", "mp4"),
    Name("20240101", "_b", "mp4"),
    Name("20240202", "_c", "mp4"),
    Name("VID_2024", "_v", "mp4"),
    Name("20240101", "_t", "txt") }

\* the heads that are eight digits
EightDigits == {"20240101", "20240202"}
\* extract_date(filename): re.match(r'^(\d{8})', filename), "" for None
extract_date(f) == IF f.head \in EightDigits THEN f.head ELSE ""
\* Path(src).glob("*.mp4")
Glob(S) == {f \in S : f.ext = "mp4"}
\* orders that name a file twice and leave another out
OrdersWithRepeats(S) == [1..Cardinality(S) -> S]
\* the orders a glob may yield the names of S in
Orders(S) ==
    {o \in [1..Cardinality(S) -> S] : \A i, j \in 1..Cardinality(S) : o[i] = o[j] => i = j}

\* a mkdir that fails on a directory that is there, whatever exist_ok says
MkdirStrict(dirs, d, exist_ok) ==
    [dirs |-> dirs \cup {d}, raised |-> d \in dirs]
\* Path.mkdir(exist_ok=...) below an existing parent: the directory is made,
\* or it is there already, which raises FileExistsError unless exist_ok
Mkdir(dirs, d, exist_ok) ==
    IF d \notin dirs THEN [dirs |-> dirs \cup {d}, raised |-> FALSE]
    ELSE [dirs |-> dirs, raised |-> ~exist_ok]

\* future.result() returns or raises once the task has ended
ResultReady(f) == f \in {"finished", "raised"}

\* a shutdown that does not wait for the tasks of the pool
ShutdownNoWait(fs) == TRUE
\* the end of the with block: executor.shutdown(wait=True) returns once
\* every submitted task has ended
ShutdownDone(fs) == \A t \in 1..Len(fs) : fs[t] \in {"finished", "raised"}

\* the positions at which process_file has ended
Ended == {"nodate", "skipped", "converted", "failed", "raised", "mkdir_error"}

\* the files main hands to the pool: the *.mp4 of the source directory, with
\* -D those whose date is args.date
Selected ==
    IF date_opt # ""
    THEN {f \in Glob(source) : extract_date(f) = date_opt}
    ELSE Glob(source)

PoolInit ==
    /\ source \in {S \in SUBSET SourceUniverse : Cardinality(S) <= MaxFiles}
    /\ date_opt \in {"", "20240101"}
    /\ threads \in 1..MaxThreads
    /\ dst_dirs \in SUBSET {"20240101"}
    /\ dst_files \in {F0 \in SUBSET {Name("20240101", "_a", "mp4")} :
                        \A f \in F0 : extract_date(f) \in dst_dirs}
    /\ mp4_files = <<>> /\ main_pc = "start"
    /\ futures = <<>> /\ task_pc = <<>> /\ joined = 0
    /\ ffmpeg_runs = <<>> /\ scale_exit = -1 /\ scale_run = 1
    /\ dst_at_start = dst_files

\* main up to the pool: validate_directories, the glob, the -D filter
ScaleSelect ==
    /\ main_pc = "start"
    /\ LET sel == Selected
       IN  IF Glob(source) = {}
           THEN main_pc' = "exited" /\ scale_exit' = 1 /\ UNCHANGED mp4_files
           ELSE IF sel = {}
           THEN main_pc' = "exited" /\ scale_exit' = 0 /\ UNCHANGED mp4_files
           ELSE /\ mp4_files' \in Orders(sel)
                /\ main_pc' = "submit"
                /\ UNCHANGED scale_exit
    /\ UNCHANGED <<source, date_opt, threads, dst_dirs, dst_files, futures, task_pc,
                   joined, ffmpeg_runs, scale_run, dst_at_start>>
    /\ UNCHANGED <<syncVars, cliVars, mergeVars, editVars>>

\* executor.submit(process_file, file, ...) for the next file of mp4_files
ScaleSubmit ==
    /\ main_pc = "submit"
    /\ futures' = Append(futures, "pending")
    /\ task_pc' = Append(task_pc, "queued")
    /\ main_pc' = IF Len(futures') = Len(mp4_files) THEN "join" ELSE "submit"
    /\ UNCHANGED <<source, date_opt, threads, dst_dirs, dst_files, mp4_files,
                   joined, ffmpeg_runs, scale_exit, scale_run, dst_at_start>>
    /\ UNCHANGED <<syncVars, cliVars, mergeVars, editVars>>

\* how a task goes on: its position, and with it the state of its future
TaskMoves(t, pos) ==
    /\ task_pc' = [task_pc EXCEPT ![t] = pos]
    /\ futures' = [futures EXCEPT ![t] =
                      IF pos \in {"raised", "mkdir_error"} THEN "raised"
                      ELSE IF pos \in Ended THEN "finished" ELSE "running"]

\* a free worker takes the oldest queued task: process_file up to the date
TaskStart(t) ==
    /\ futures[t] = "pending"
    /\ \A u \in 1..(t - 1) : futures[u] # "pending"
    /\ Cardinality({u \in 1..Len(futures) : futures[u] = "running"}) < threads
    /\ TaskMoves(t, IF extract_date(mp4_files[t]) = "" THEN "nodate" ELSE "mkdir")
    /\ UNCHANGED <<source, date_opt, threads, dst_dirs, dst_files, mp4_files, main_pc,
                   joined, ffmpeg_runs, scale_exit, scale_run, dst_at_start>>
    /\ UNCHANGED <<syncVars, cliVars, mergeVars, editVars>>

\* output_dir.mkdir(exist_ok=True)
TaskMkdir(t) ==
    /\ task_pc[t] = "mkdir"
    /\ LET made == Mkdir(dst_dirs, extract_date(mp4_files[t]), TRUE)
       IN  /\ dst_dirs' = made.dirs
           /\ TaskMoves(t, IF made.raised THEN "mkdir_error" ELSE "exists")
    /\ UNCHANGED <<source, date_opt, threads, dst_files, mp4_files, main_pc,
                   joined, ffmpeg_runs, scale_exit, scale_run, dst_at_start>>
    /\ UNCHANGED <<syncVars, cliVars, mergeVars, editVars>>

\* an existence test that never finds the output
OutputNeverExists(files, f) == FALSE
\* output_file.exists()
OutputExists(files, f) == f \in files

\* if output_file.exists(): skip
TaskExists(t) ==
    /\ task_pc[t] = "exists"
    /\ TaskMoves(t, IF OutputExists(dst_files, mp4_files[t]) THEN "skipped" ELSE "ffmpeg")
    /\ UNCHANGED <<source, date_opt, threads, dst_dirs, dst_files, mp4_files, main_pc,
                   joined, ffmpeg_runs, scale_exit, scale_run, dst_at_start>>
    /\ UNCHANGED <<syncVars, cliVars, mergeVars, editVars>>

\* subprocess.run(ffmpeg_cmd): returncode 0, another returncode (the output
\* written in part or not at all), or an OSError, which the except clause for
\* CalledProcessError does not catch
TaskFfmpeg(t) ==
    /\ task_pc[t] = "ffmpeg"
    /\ \E result \in {"zero", "nonzero", "oserror"}, partial \in BOOLEAN :
         /\ (result # "nonzero") => ~partial
         /\ ffmpeg_runs' = Append(ffmpeg_runs, mp4_files[t])
         /\ dst_files' = IF result = "zero" \/ partial
                         THEN dst_files \cup {mp4_files[t]} ELSE dst_files
         /\ TaskMoves(t, CASE result = "zero" -> "converted"
                           [] result = "nonzero" -> "failed"
                           [] OTHER -> "raised")
    /\ UNCHANGED <<source, date_opt, threads, dst_dirs, mp4_files, main_pc,
                   joined, scale_exit, scale_run, dst_at_start>>
    /\ UNCHANGED <<syncVars, cliVars, mergeVars, editVars>>

\* for future in futures: future.result(); an exception of the task is raised
\* again in main
ScaleJoin ==
    /\ main_pc = "join" /\ joined < Len(futures)
    /\ ResultReady(futures[joined + 1])
    /\ IF futures[joined + 1] = "raised"
       THEN main_pc' = "unwind" /\ UNCHANGED joined
       ELSE joined' = joined + 1 /\ UNCHANGED main_pc
    /\ UNCHANGED <<source, date_opt, threads, dst_dirs, dst_files, mp4_files,
                   futures, task_pc, ffmpeg_runs, scale_exit, scale_run, dst_at_start>>
    /\ UNCHANGED <<syncVars, cliVars, mergeVars, editVars>>

\* the with block ends after the loop: print("Conversion completed!")
ScaleCompleted ==
    /\ main_pc = "join" /\ joined = Len(futures)
    /\ ShutdownDone(futures)
    /\ main_pc' = "completed" /\ scale_exit' = 0
    /\ UNCHANGED <<source, date_opt, threads, dst_dirs, dst_files, mp4_files,
                   futures, task_pc, joined, ffmpeg_runs, scale_run, dst_at_start>>
    /\ UNCHANGED <<syncVars, cliVars, mergeVars, editVars>>

\* the with block ends on the exception: shutdown, then the traceback
ScaleCrashed ==
    /\ main_pc = "unwind"
    /\ ShutdownDone(futures)
    /\ main_pc' = "crashed" /\ scale_exit' = 1
    /\ UNCHANGED <<source, date_opt, threads, dst_dirs, dst_files, mp4_files,
                   futures, task_pc, joined, ffmpeg_runs, scale_run, dst_at_start>>
    /\ UNCHANGED <<syncVars, cliVars, mergeVars, editVars>>

\* the program is run again on the same directories
ScaleRerun ==
    /\ main_pc \in {"completed", "crashed", "exited"}
    /\ scale_run < MaxRuns
    /\ scale_run' = scale_run + 1
    /\ mp4_files' = <<>> /\ main_pc' = "start"
    /\ futures' = <<>> /\ task_pc' = <<>> /\ joined' = 0
    /\ ffmpeg_runs' = <<>> /\ scale_exit' = -1
    /\ dst_at_start' = dst_files
    /\ UNCHANGED <<source, date_opt, threads, dst_dirs, dst_files>>
    /\ UNCHANGED <<syncVars, cliVars, mergeVars, editVars>>

ScaleInit == SyncIdle /\ PoolInit /\ CliIdle /\ MergeIdle /\ EditIdle

ScaleNext ==
    \/ ScaleSelect
    \/ ScaleSubmit
    \/ \E t \in 1..Len(futures) : TaskStart(t)
    \/ \E t \in 1..Len(futures) : TaskMkdir(t)
    \/ \E t \in 1..Len(futures) : TaskExists(t)
    \/ \E t \in 1..Len(futures) : TaskFfmpeg(t)
    \/ ScaleJoin
    \/ ScaleCompleted
    \/ ScaleCrashed
    \/ ScaleRerun

ScaleSpec == ScaleInit /\ [][ScaleNext]_vars

----------------------------------------------------------------------------
(* camera.py main: the command line and the choice of the mode *)

\* a command line carries at most MaxOptions options
MaxOptions == 3

\* Python values are written as strings: "None", "False", "True", numbers and
\* texts by their repr
LATEST_DATE_CONST == "LATEST_DATE"
DEFAULT_FONT_PATH == "/usr/share/fonts/opentype/noto/NotoSansCJK-Regular.ttc"

\* bool(v)
Truthy(v) == v \notin {"None", "False", "0", "0.0", ""}

\* the command lines: each option is "absent" or given, with its value where
\* it takes one ("flag" for -l without a date)
CommandLines ==
    {c \in [last : {"absent", "flag", "20251109", "20251340", "today"},
            date : {"absent", "given"},
            info : {"absent", "given"},
            files : {"absent", "a.mp4"},
            merge : {"absent", "given"},
            shorten : {"absent", "45", "0"},
            slice : {"absent", "5-15.5"},
            name : {"absent", "out.mp4"},
            shrink : {"absent", "1024x768"},
            text : {"absent", "given"},
            subtitle : {"absent", "s.srt"},
            sync : {"absent", "given"},
            mute : {"absent", "given"}] :
        Cardinality({o \in DOMAIN c : c[o] # "absent"}) <= MaxOptions}

\* validate_date_format_opt: "error" for ArgumentTypeError
validate_date_format_opt(v) ==
    IF v \notin {"20251109", "20251340"} THEN "error"      \* re.match(r'^\d{8}$')
    ELSE IF v # "20251109" THEN "error"                    \* datetime.strptime
    ELSE v

\* action="store_true"
StoreTrue(v) == IF v = "given" THEN "True" ELSE "False"
\* an option with a value and the default None
Stored(v) == IF v = "absent" THEN "None" ELSE v
\* type=float
Float(v) == CASE v = "45" -> "45.0" [] v = "0" -> "0.0" [] OTHER -> v

\* parser.parse_args(): the namespace, the defaults filled in
parse_args(c) ==
    [last |-> CASE c.last = "absent" -> "None"
                [] c.last = "flag" -> LATEST_DATE_CONST
                [] OTHER -> validate_date_format_opt(c.last),
     date |-> StoreTrue(c.date),
     info |-> StoreTrue(c.info),
     info_sort |-> "name",
     info_sum |-> "False",
     files |-> Stored(c.files),
     merge |-> StoreTrue(c.merge),
     shorten |-> Float(Stored(c.shorten)),
     slice |-> Stored(c.slice),
     name |-> Stored(c.name),
     shrink |-> Stored(c.shrink),
     text |-> StoreTrue(c.text),
     subtitle |-> Stored(c.subtitle),
     font |-> DEFAULT_FONT_PATH,
     pos |-> "top-left",
     size |-> "16",
     sync |-> StoreTrue(c.sync),
     mute |-> StoreTrue(c.mute)]

\* any(arg is not None and arg is not False for arg in vars(args).values()
\*     if arg != LATEST_DATE_CONST) or args.last
is_any_arg_used(a) ==
    \/ \E k \in DOMAIN a :
          a[k] # LATEST_DATE_CONST /\ a[k] # "None" /\ a[k] # "False"
    \/ Truthy(a.last)

\* any(conflict_args)
AnyTrue(values) == \E v \in values : Truthy(v)

Did(action, code, target) == [action |-> action, exit |-> code, target |-> target]

\* the --sync branch of main; what sync_files does is the handler's (-1)
SyncMode(a) ==
    IF AnyTrue({a.date, a.info, a.merge, a.files, a.shorten, a.slice, a.shrink,
                a.name, a.text, a.subtitle}) \/ a.last # "None"
    THEN Did("sync_conflict", 1, "None")
    ELSE Did("sync", -1, "None")

\* conflict_args of the statistics mode
StatisticsConflict(a) ==
    AnyTrue({a.info, a.merge, a.files, a.shorten, a.slice, a.shrink, a.name,
             a.text, a.subtitle, a.font, a.pos, a.size})

\* the statistics branch of main
StatisticsMode(a) ==
    IF StatisticsConflict(a) THEN Did("statistics_conflict", 1, "None")
    ELSE IF Truthy(a.date)
    THEN IF a.last # "None" THEN Did("date_with_last", 1, "None")
         ELSE Did("show_date", 0, "None")
    ELSE Did("show_last", 0, IF a.last # LATEST_DATE_CONST THEN a.last ELSE "None")

\* the branches of main after the statistics mode, the work on the files left
\* to the handlers (-1)
ProcessingModes(a) ==
    IF Truthy(a.info)
    THEN IF ~Truthy(a.files) THEN Did("info_without_files", 1, "None")
         ELSE Did("info", -1, a.files)
    ELSE IF Truthy(a.merge) \/ Truthy(a.shorten) \/ Truthy(a.slice)
    THEN IF a.last # "None" THEN Did("last_in_processing", 1, "None")
         ELSE IF ~Truthy(a.files) THEN Did("processing_without_files", 1, "None")
         ELSE Did("processing", -1, a.files)
    ELSE IF Truthy(a.shrink)
    THEN IF a.last # "None" \/ Truthy(a.text) \/ Truthy(a.subtitle)
         THEN Did("shrink_conflict", 1, "None")
         ELSE IF ~Truthy(a.files) THEN Did("shrink_without_files", 1, "None")
         ELSE Did("shrink", -1, a.files)
    ELSE IF Truthy(a.text)
    THEN IF a.last # "None" \/ Truthy(a.shrink) THEN Did("text_conflict", 1, "None")
         ELSE IF ~Truthy(a.files) THEN Did("text_without_files", 1, "None")
         ELSE IF ~Truthy(a.subtitle) THEN Did("text_without_subtitle", 1, "None")
         ELSE Did("text", -1, a.files)
    ELSE IF Truthy(a.mute)
    THEN IF a.last # "None" \/ Truthy(a.shrink) \/ Truthy(a.text)
         THEN Did("mute_conflict", 1, "None")
         ELSE IF ~Truthy(a.files) THEN Did("mute_without_files", 1, "None")
         ELSE Did("mute", -1, a.files)
    ELSE Did("help", 1, "None")

\* main after parse_args()
Dispatch(a) ==
    IF ~is_any_arg_used(a) THEN Did("help", 0, "None")
    ELSE IF Truthy(a.sync) THEN SyncMode(a)
    ELSE IF a.last # "None" \/ Truthy(a.date) THEN StatisticsMode(a)
    ELSE ProcessingModes(a)

CliInit ==
    /\ argv \in CommandLines
    /\ args = <<>> /\ cli_pc = "start" /\ outcome = <<>>

\* args = parser.parse_args(): a value the type function rejects ends the
\* program with status 2
CliParse ==
    /\ cli_pc = "start"
    /\ IF parse_args(argv).last = "error"
       THEN /\ outcome' = Did("usage_error", 2, "None")
            /\ cli_pc' = "done"
            /\ UNCHANGED args
       ELSE /\ args' = parse_args(argv)
            /\ cli_pc' = "parsed"
            /\ UNCHANGED outcome
    /\ UNCHANGED argv
    /\ UNCHANGED <<syncVars, poolVars, mergeVars, editVars>>

\* the rest of main: the mode is chosen
CliDispatch ==
    /\ cli_pc = "parsed"
    /\ outcome' = Dispatch(args)
    /\ cli_pc' = "done"
    /\ UNCHANGED <<argv, args>>
    /\ UNCHANGED <<syncVars, poolVars, mergeVars, editVars>>

CameraInit == SyncIdle /\ PoolIdle /\ CliInit /\ MergeIdle /\ EditIdle

CameraNext ==
    \/ CliParse
    \/ CliDispatch

CameraSpec == CameraInit /\ [][CameraNext]_vars

----------------------------------------------------------------------------
(* merge-shrink-180.py: merge the videos of a date, compress them to 180 s *)

\* a name: the tokens of its leading digits, the rest of its stem, its extension
Clip(d, t, e) == [date |-> d, tail |-> t, ext |-> e]

\* the names an input directory may hold, in ascending order of the names
ClipUniverse == <<Clip(<<"2023", "0930">>, "_1", "mp4"),
                  Clip(<<"2023", "0930">>, "_2", "AVI"),
                  Clip(<<"2023", "0930">>, "_3", "txt"),
                  Clip(<<"2023", "1001">>, "_1", "mp4")>>
\* the lengths of a video in the input directory, in seconds
ClipSeconds == {60, 120}

\* f.startswith(date_prefix)
StartsWith(n, date_prefix) == IsPrefix(date_prefix, n.date)
\* str.lower() of an extension
Lower(e) ==
    CASE e = "MP4" -> "mp4"
      [] e = "AVI" -> "avi"
      [] OTHER -> e
\* sorted(videos)
SortedClips(S) == SelectSeq(ClipUniverse, LAMBDA c : c \in S)

\* merge_videos: the videos that carry the prefix, sorted
MatchingVideos(listing, date_prefix) ==
    SortedClips({n \in DOMAIN listing :
                    StartsWith(n, date_prefix) /\ Lower(n.ext) \in {"mp4", "avi", "mkv"}})

\* the length of the concatenation of the videos
RECURSIVE TotalSeconds(_, _)
TotalSeconds(listing, videos) ==
    IF videos = <<>> THEN 0
    ELSE listing[Head(videos)] + TotalSeconds(listing, Tail(videos))

\* a file: a "list" of names, a "video" of the clips, or the "partial" output
\* of a failed ffmpeg
File(kind, clips, secs) == [kind |-> kind, clips |-> clips, secs |-> secs]
\* open(p, "w") / the output of ffmpeg
WriteFile(fs, p, c) == [q \in DOMAIN fs \cup {p} |-> IF q = p THEN c ELSE fs[q]]
\* if os.path.exists(p): os.remove(p)
RemoveFile(fs, p) == [q \in DOMAIN fs \ {p} |-> fs[q]]

target_duration == 180
temp_output == "temp_merged_video.mp4"
file_list == "file_list.txt"

\* get_video_duration: 0 when the probe fails
get_video_duration(fs, video_file, probed) == IF probed THEN fs[video_file].secs ELSE 0

MergeInit ==
    /\ ms_args \in [input_dir : {"videos", "nowhere"},
                    date_prefix : {<<"2023", "0930">>, <<"2023">>, <<"2022">>},
                    output_file : {"out.mp4"}]
    /\ \E S \in SUBSET Range(ClipUniverse) : ms_listing \in [S -> ClipSeconds]
    /\ ms_cwd = <<>> /\ ms_pc = "start" /\ ms_merged = FALSE /\ ms_final = ""

\* main: if not os.path.isdir(args.input_dir): return
MsCheckDir ==
    /\ ms_pc = "start"
    /\ ms_pc' = IF ms_args.input_dir = "videos" THEN "merge" ELSE "done"
    /\ UNCHANGED <<ms_args, ms_listing, ms_cwd, ms_merged, ms_final>>
    /\ UNCHANGED <<syncVars, poolVars, cliVars, editVars>>

\* merge_videos: the videos are listed and the list file is written
MsListVideos ==
    /\ ms_pc = "merge"
    /\ LET videos == MatchingVideos(ms_listing, ms_args.date_prefix) IN
        IF videos = <<>>
        THEN ms_pc' = "done" /\ UNCHANGED ms_cwd
        ELSE /\ ms_pc' = "concat"
             /\ ms_cwd' = WriteFile(ms_cwd, file_list, File("list", videos, 0))
    /\ UNCHANGED <<ms_args, ms_listing, ms_merged, ms_final>>
    /\ UNCHANGED <<syncVars, poolVars, cliVars, editVars>>

\* merge_videos: ffmpeg concatenates into temp_output; the list file is removed
MsConcat ==
    /\ ms_pc = "concat"
    /\ \E result \in {"ok", "failed", "failed_partial"} :
        LET videos == ms_cwd[file_list].clips
            written ==
                CASE result = "ok" ->
                        WriteFile(ms_cwd, temp_output,
                                  File("video", videos, TotalSeconds(ms_listing, videos)))
                  [] result = "failed_partial" ->
                        WriteFile(ms_cwd, temp_output, File("partial", videos, 0))
                  [] OTHER -> ms_cwd
        IN  /\ ms_cwd' = RemoveFile(written, file_list)
            /\ ms_merged' = (result = "ok")
            /\ ms_pc' = IF result = "ok" THEN "compress" ELSE "done"
    /\ UNCHANGED <<ms_args, ms_listing, ms_final>>
    /\ UNCHANGED <<syncVars, poolVars, cliVars, editVars>>

\* compress_video_duration: a video within the target is returned as it is
MsProbe ==
    /\ ms_pc = "compress"
    /\ \E probed \in BOOLEAN :
        IF get_video_duration(ms_cwd, temp_output, probed) <= target_duration
        THEN ms_final' = temp_output /\ ms_pc' = "cleanup"
        ELSE ms_pc' = "ffmpeg" /\ UNCHANGED ms_final
    /\ UNCHANGED <<ms_args, ms_listing, ms_cwd, ms_merged>>
    /\ UNCHANGED <<syncVars, poolVars, cliVars, editVars>>

\* compress_video_duration: ffmpeg writes output_file; input_file is returned
\* when it fails
MsCompress ==
    /\ ms_pc = "ffmpeg"
    /\ \E result \in {"ok", "failed", "failed_partial"} :
        LET clips == ms_cwd[temp_output].clips IN
        CASE result = "ok" ->
                /\ ms_cwd' = WriteFile(ms_cwd, ms_args.output_file,
                                       File("video", clips, target_duration))
                /\ ms_final' = ms_args.output_file
          [] result = "failed_partial" ->
                /\ ms_cwd' = WriteFile(ms_cwd, ms_args.output_file, File("partial", clips, 0))
                /\ ms_final' = temp_output
          [] OTHER -> ms_cwd' = ms_cwd /\ ms_final' = temp_output
    /\ ms_pc' = "cleanup"
    /\ UNCHANGED <<ms_args, ms_listing, ms_merged>>
    /\ UNCHANGED <<syncVars, poolVars, cliVars, editVars>>

\* main: temp_output is removed when final_output is another file
MsCleanup ==
    /\ ms_pc = "cleanup"
    /\ ms_cwd' = IF ms_final # temp_output THEN RemoveFile(ms_cwd, temp_output) ELSE ms_cwd
    /\ ms_pc' = "done"
    /\ UNCHANGED <<ms_args, ms_listing, ms_merged, ms_final>>
    /\ UNCHANGED <<syncVars, poolVars, cliVars, editVars>>

MergeShrinkInit == SyncIdle /\ PoolIdle /\ CliIdle /\ MergeInit /\ EditIdle

MergeShrinkNext ==
    \/ MsCheckDir
    \/ MsListVideos
    \/ MsConcat
    \/ MsProbe
    \/ MsCompress
    \/ MsCleanup

MergeShrinkSpec == MergeShrinkInit /\ [][MergeShrinkNext]_vars

----------------------------------------------------------------------------
(* camera.py main: merge then shorten / slice, and shorten alone *)

\* a path: its directory, the pieces of its stem, its extension
P(dir, stem, ext) == [dir |-> dir, stem |-> stem, ext |-> ext]
\* no -n: args.name is None
NoName == P("", <<>>, "")

ClipA == P("Camera", <<"a">>, "mp4")
ClipB == P("Camera", <<"b">>, "mp4")

\* build_concat_file: /tmp/fflist.<pid>.txt
concat_file == P("/tmp", <<"fflist", "pid">>, "txt")
\* /tmp/temp_merge_chain.<pid>.mp4
temp_merged_file == P("/tmp", <<"temp_merge_chain", "pid">>, "mp4")
\* shorten_video: /tmp/shortened.<pid>.mp4
tmp_out == P("/tmp", <<"shortened", "pid">>, "mp4")
\* base, ext = os.path.splitext(input_file); f"{base}-temp{ext}"
TempCopy(input_file) == [input_file EXCEPT !.stem = input_file.stem \o <<"-temp">>]

\* a --slice value is the sequence of its tokens; <<>> when -S is not given
SliceRanges == {<<>>,
                <<"0", "-", "10">>,
                <<"10", "-", "5">>,
                <<"10">>,
                <<"a", "-", "b">>,
                <<"1", ":", "30", "-", "2", ":", "0">>}

\* the outcomes of an ffmpeg call made with check=True
FfmpegResults == {"ok", "failed", "failed_partial"}

\* str.split(sep, 1)
SplitOnce(ts, sep) ==
    LET i == CHOOSE k \in 1..Len(ts) : ts[k] = sep /\ \A j \in 1..(k - 1) : ts[j] # sep
    IN  <<SubSeq(ts, 1, i - 1), SubSeq(ts, i + 1, Len(ts))>>
\* int() / float() of a text, -1 for ValueError
Number(ts) ==
    IF Len(ts) # 1 THEN -1
    ELSE CASE ts[1] = "0" -> 0
           [] ts[1] = "1" -> 1
           [] ts[1] = "2" -> 2
           [] ts[1] = "5" -> 5
           [] ts[1] = "10" -> 10
           [] ts[1] = "30" -> 30
           [] OTHER -> -1
\* parse_time_str, -1 for ValueError
parse_time_str(ts) ==
    IF ":" \in Range(ts)
    THEN LET m == Number(SplitOnce(ts, ":")[1])
             sec == Number(SplitOnce(ts, ":")[2])
         IN  IF m < 0 \/ sec < 0 THEN -1 ELSE m * 60 + sec
    ELSE Number(ts)
\* slice_video: the checks of slice_range, and the duration of a valid range
SliceCheck(slice_range) ==
    IF "-" \notin Range(slice_range) THEN [error |-> "format", duration |-> 0]
    ELSE LET start == parse_time_str(SplitOnce(slice_range, "-")[1])
             end == parse_time_str(SplitOnce(slice_range, "-")[2])
         IN  IF start < 0 \/ end < 0 THEN [error |-> "time", duration |-> 0]
             ELSE IF end <= start THEN [error |-> "order", duration |-> 0]
             ELSE [error |-> "", duration |-> end - start]

\* get_duration: 0.0 when ffprobe prints no number
get_duration(fs, file_path, probed) == IF probed THEN fs[file_path].secs ELSE 0

\* shutil.move(src, dst)
Move(fs, src, dst) == IF src = dst THEN fs ELSE WriteFile(RemoveFile(fs, src), dst, fs[src])

\* a shorten_video whose ffmpeg writes onto input_file
shorten_video_in_place(fs, input_file, target_seconds, probed, result) ==
    IF get_duration(fs, input_file, probed) <= target_seconds
    THEN [fs |-> fs, raised |-> FALSE, ran |-> FALSE]
    ELSE CASE result = "ok" ->
                [fs |-> WriteFile(fs, input_file,
                                  File("video", fs[input_file].clips, target_seconds)),
                 raised |-> FALSE, ran |-> TRUE]
           [] OTHER ->
                [fs |-> WriteFile(fs, input_file, File("partial", fs[input_file].clips, 0)),
                 raised |-> TRUE, ran |-> TRUE]
\* shorten_video: the files afterwards, whether CalledProcessError was raised,
\* whether ffmpeg ran
shorten_video(fs, input_file, target_seconds, probed, result) ==
    IF get_duration(fs, input_file, probed) <= target_seconds
    THEN [fs |-> fs, raised |-> FALSE, ran |-> FALSE]
    ELSE CASE result = "ok" ->
                [fs |-> WriteFile(RemoveFile(fs, tmp_out), input_file,
                                  File("video", fs[input_file].clips, target_seconds)),
                 raised |-> FALSE, ran |-> TRUE]
           [] result = "failed_partial" ->
                [fs |-> WriteFile(fs, tmp_out, File("partial", fs[input_file].clips, 0)),
                 raised |-> TRUE, ran |-> TRUE]
           [] OTHER -> [fs |-> fs, raised |-> TRUE, ran |-> TRUE]

Call(tool, file, result) == [tool |-> tool, file |-> file, outcome |-> result]
ShortenCall(file, r) ==
    Call("shorten", file, IF ~r.ran THEN "skipped" ELSE IF r.raised THEN "failed" ELSE "ok")

\* is_chain_process = args.merge and (args.shorten or args.slice)
is_chain_process(a) == a.merge /\ (a.shorten # 0 \/ a.slice # <<>>)

\* main: output_file of the chain process
ChainOutput(a) ==
    IF a.name # NoName THEN a.name
    ELSE P(".", <<"TODAY", "tag", IF a.shorten # 0 THEN "shorten" ELSE "slice">>, "mp4")

\* a finally clause that removes nothing
ChainFinallySkipped(fs) == fs
\* finally: if os.path.exists(temp_merged_file): os.remove(temp_merged_file)
ChainFinally(fs) == RemoveFile(fs, temp_merged_file)

\* the modes reached with files to process: the chain process or shorten alone
EditInit ==
    /\ ed_args \in {a \in [merge : BOOLEAN, shorten : {0, 30}, slice : SliceRanges,
                           name : {NoName, P(".", <<"out">>, "mp4"), ClipA}] :
                        is_chain_process(a) \/ (~a.merge /\ a.shorten # 0)}
    /\ ed_files \in {<<ClipA>>, <<ClipA, ClipB>>}
    /\ \E secs \in [Range(ed_files) -> {20, 60}] :
        ed_fs = [f \in Range(ed_files) |-> File("source", <<f>>, secs[f])]
    /\ ed_pc = "start" /\ ed_i = 1 /\ ed_exit = -1 /\ ed_calls = <<>>

\* main: the mode is chosen; the chain process writes the concat list
EdChoose ==
    /\ ed_pc = "start"
    /\ IF is_chain_process(ed_args)
       THEN /\ ed_fs' = WriteFile(ed_fs, concat_file, File("list", ed_files, 0))
            /\ ed_pc' = "chain_merge"
            /\ UNCHANGED ed_exit
       ELSE IF ed_args.name # NoName /\ Len(ed_files) > 1
       THEN ed_pc' = "done" /\ ed_exit' = 1 /\ UNCHANGED ed_fs
       ELSE ed_pc' = "shorten" /\ UNCHANGED <<ed_fs, ed_exit>>
    /\ UNCHANGED <<ed_args, ed_files, ed_i, ed_calls>>
    /\ UNCHANGED <<syncVars, poolVars, cliVars, mergeVars>>

\* main: the temporary merge, its except and finally clauses; "oserror" is
\* an ffmpeg that cannot be started
EdChainMerge ==
    /\ ed_pc = "chain_merge"
    /\ \E result \in FfmpegResults \cup {"oserror"} :
        LET secs == [f \in Range(ed_files) |-> ed_fs[f].secs]
            written ==
                CASE result = "ok" ->
                        WriteFile(ed_fs, temp_merged_file,
                                  File("video", ed_files, TotalSeconds(secs, ed_files)))
                  [] result = "failed_partial" ->
                        WriteFile(ed_fs, temp_merged_file, File("partial", ed_files, 0))
                  [] OTHER -> ed_fs
            handled ==
                IF result \in {"failed", "failed_partial"}
                THEN RemoveFile(RemoveFile(written, concat_file), temp_merged_file)
                ELSE written
        IN  /\ ed_fs' = RemoveFile(handled, concat_file)
            /\ ed_calls' = Append(ed_calls, Call("concat", temp_merged_file,
                                                 IF result = "ok" THEN "ok" ELSE "failed"))
            /\ IF result = "ok"
               THEN ed_pc' = "chain_do" /\ UNCHANGED ed_exit
               ELSE ed_pc' = "done" /\ ed_exit' = 1
    /\ UNCHANGED <<ed_args, ed_files, ed_i>>
    /\ UNCHANGED <<syncVars, poolVars, cliVars, mergeVars>>

\* main: shorten the merged file and move it to output_file; a move that
\* fails raises past the except clause
EdChainShorten ==
    /\ ed_pc = "chain_do"
    /\ ed_args.shorten # 0
    /\ \E probed \in BOOLEAN, result \in FfmpegResults, moved \in BOOLEAN :
        LET r == shorten_video(ed_fs, temp_merged_file, ed_args.shorten, probed, result)
            after ==
                IF r.raised THEN RemoveFile(r.fs, temp_merged_file)
                ELSE IF moved THEN Move(r.fs, temp_merged_file, ChainOutput(ed_args))
                ELSE r.fs
        IN  /\ ed_fs' = ChainFinally(after)
            /\ ed_calls' = Append(ed_calls, ShortenCall(temp_merged_file, r))
            /\ ed_exit' = IF r.raised \/ ~moved THEN 1 ELSE 0
    /\ ed_pc' = "done"
    /\ UNCHANGED <<ed_args, ed_files, ed_i>>
    /\ UNCHANGED <<syncVars, poolVars, cliVars, mergeVars>>

\* main: slice the merged file into output_file; slice_video exits on a bad
\* range
EdChainSlice ==
    /\ ed_pc = "chain_do"
    /\ ed_args.shorten = 0
    /\ LET check == SliceCheck(ed_args.slice)
           output_file == ChainOutput(ed_args)
       IN  IF check.error # ""
           THEN /\ ed_fs' = ChainFinally(ed_fs)
                /\ ed_exit' = 1
                /\ UNCHANGED ed_calls
           ELSE \E result \in FfmpegResults :
                LET clips == ed_fs[temp_merged_file].clips
                    written ==
                        CASE result = "ok" ->
                                WriteFile(ed_fs, output_file,
                                          File("video", clips, check.duration))
                          [] result = "failed_partial" ->
                                WriteFile(ed_fs, output_file, File("partial", clips, 0))
                          [] OTHER -> ed_fs
                    after == IF result = "ok" THEN written
                             ELSE RemoveFile(written, temp_merged_file)
                IN  /\ ed_fs' = ChainFinally(after)
                    /\ ed_calls' = Append(ed_calls, Call("slice", temp_merged_file,
                                                         IF result = "ok" THEN "ok" ELSE "failed"))
                    /\ ed_exit' = IF result = "ok" THEN 0 ELSE 1
    /\ ed_pc' = "done"
    /\ UNCHANGED <<ed_args, ed_files, ed_i>>
    /\ UNCHANGED <<syncVars, poolVars, cliVars, mergeVars>>

\* main: one round of the loop of shorten alone; with -n a copy is shortened
\* and moved to the name, without -n the file itself is shortened
EdShortenOne ==
    /\ ed_pc = "shorten"
    /\ ed_i <= Len(ed_files)
    /\ \E probed \in BOOLEAN, result \in FfmpegResults, moved \in BOOLEAN :
        LET input_file == ed_files[ed_i] IN
        IF ed_args.name # NoName
        THEN LET copied == WriteFile(ed_fs, TempCopy(input_file), ed_fs[input_file])
                 r == shorten_video(copied, TempCopy(input_file), ed_args.shorten,
                                    probed, result)
             IN  /\ ed_calls' = Append(ed_calls, ShortenCall(TempCopy(input_file), r))
                 /\ IF r.raised
                    THEN /\ ed_fs' = RemoveFile(r.fs, TempCopy(input_file))
                         /\ ed_i' = ed_i + 1
                         /\ UNCHANGED <<ed_pc, ed_exit>>
                    ELSE IF moved
                    THEN /\ ed_fs' = Move(r.fs, TempCopy(input_file), ed_args.name)
                         /\ ed_i' = ed_i + 1
                         /\ UNCHANGED <<ed_pc, ed_exit>>
                    ELSE /\ ed_fs' = r.fs
                         /\ ed_pc' = "done" /\ ed_exit' = 1
                         /\ UNCHANGED ed_i
        ELSE LET r == shorten_video(ed_fs, input_file, ed_args.shorten, probed, result)
             IN  /\ ed_fs' = r.fs
                 /\ ed_calls' = Append(ed_calls, ShortenCall(input_file, r))
                 /\ ed_i' = ed_i + 1
                 /\ UNCHANGED <<ed_pc, ed_exit>>
    /\ UNCHANGED <<ed_args, ed_files>>
    /\ UNCHANGED <<syncVars, poolVars, cliVars, mergeVars>>

\* main: the loop of shorten alone has ended
EdShortenDone ==
    /\ ed_pc = "shorten"
    /\ ed_i > Len(ed_files)
    /\ ed_pc' = "done" /\ ed_exit' = 0
    /\ UNCHANGED <<ed_args, ed_files, ed_fs, ed_i, ed_calls>>
    /\ UNCHANGED <<syncVars, poolVars, cliVars, mergeVars>>

EditSpecInit == SyncIdle /\ PoolIdle /\ CliIdle /\ MergeIdle /\ EditInit

EditNext ==
    \/ EdChoose
    \/ EdChainMerge
    \/ EdChainShorten
    \/ EdChainSlice
    \/ EdShortenOne
    \/ EdShortenDone

EditSpec == EditSpecInit /\ [][EditNext]_vars

----------------------------------------------------------------------------
(* Properties *)

\* the listed remote files that stand behind a relative path
RemoteSources(rel) ==
    CASE variant = "camera" ->
            {p \in UNION {FindMedia(possible_bases[b]) : b \in 1..Len(possible_bases)} :
                RelPath(p) = rel}
      [] OTHER -> {p \in {REMOTE_DIR \o rel} : IsRemoteFile(p)}

\* the plan has just been computed and no iteration of the loop has run
JustDiffed ==
    /\ variant \in {"camera", "org"}
    /\ planned /\ idx = 1 /\ pulls = <<>>

\* C1: delta correctness. When camera.py has computed its plan, the plan holds
\* only listed remote files, holds every listed remote file that has no local
\* record, and holds no remote file whose local record has the same size and
\* modification time.
C1_DeltaCorrect ==
    JustDiffed =>
        /\ Plan \subseteq remote_files
        /\ \A rel \in remote_files :
             /\ rel \notin DOMAIN local => rel \in Plan
             /\ (/\ rel \in DOMAIN local
                 /\ \E p \in RemoteSources(rel) :
                      /\ remoteFS[p].size = local[rel].size
                      /\ remoteFS[p].mtime = local[rel].mtime)
                  => rel \notin Plan

\* R = {a.mp4, sub/b.JPG}, L = {a.mp4 as on the device}: the plan is sub/b.JPG
C1_Witness ==
    /\ JustDiffed
    /\ remote_files = {RelA, RelB}
    /\ RelA \in DOMAIN local /\ RelB \notin DOMAIN local
    /\ local[RelA].size = remoteFS[PathA].size
    /\ local[RelA].mtime = remoteFS[PathA].mtime
    /\ to_download = <<RelB>>

\* the step in which adb-rsync's sync_file handles the file named entry
RsFileStep(rel) ==
    /\ variant = "rsync" /\ pc = "walk"
    /\ Top.i <= Len(Top.files)
    /\ IsRemoteFile(Top.rdir \o <<Top.files[Top.i]>>)
    /\ rel = Top.ldir \o <<Top.files[Top.i]>>
    /\ stack' # stack

\* a remote file has a local record that differs in size or in time
Stale(rel, src) ==
    /\ rel \in DOMAIN local
    /\ \/ local[rel].size # remoteFS[src].size
       \/ local[rel].mtime # remoteFS[src].mtime

LocalOnly(f) ==
    /\ f \in DOMAIN local
    /\ ~IsRemoteFile(REMOTE_DIR \o f)
    /\ f \notin RemoteListing

\* C3: additivity. No step of a run changes or removes a local file that has
\* no counterpart on the device, whatever the pulls of the run do.
C3_Additive ==
    [][\A f \in DOMAIN local :
          LocalOnly(f) => f \in DOMAIN local' /\ local'[f] = local[f]]_vars

\* a run has ended in which a pull succeeded while keep.mp4 lay in the folder
C3_Witness ==
    /\ LocalOnly(RelK)
    /\ pc = "done"
    /\ Fetched # {}

\* the previous run settled its plan, ended with a report of completion and
\* every file of its plan was brought over by a pull
PrevRunClean ==
    /\ prev.planned
    /\ prev.kind \in {"summary", "up_to_date", "complete"}
    /\ prev.plan \subseteq prev.fetched

ListedRemote ==
    CASE variant \in {"camera", "org"} -> remote_files
      [] OTHER -> {Drop(p, Len(REMOTE_DIR)) :
                      p \in {q \in DOMAIN remoteFS :
                               /\ remoteFS[q].kind = "file"
                               /\ IsPrefix(REMOTE_DIR, q)}}

\* the run has ended reporting that all it set out to do succeeded
ReportsSuccess ==
    /\ pc = "done" /\ exit = 0
    /\ \/ report.kind \in {"complete", "up_to_date"}
       \/ report.kind = "summary" /\ report.succeeded = report.attempted

\* C5: completeness. After a run that reports overall success every remote
\* file of the listing has a local file under its relative path.
C5_Complete ==
    ReportsSuccess => \A rel \in ListedRemote : rel \in DOMAIN local

\* some pull of the run failed
SomePullFailed == \E i \in 1..Len(pulls) : ~pulls[i].ok

C7_Accounting ==
    (/\ pc = "done"
     /\ report.kind \in {"summary", "complete", "errors"}
     /\ SomePullFailed)
        => report.succeeded < report.attempted

\* the remote root of the run cannot be enumerated
RemoteRootExists ==
    CASE variant = "camera" ->
            \E b \in 1..Len(possible_bases) : IsRemoteDir(possible_bases[b])
      [] OTHER -> IsRemoteDir(REMOTE_DIR)
StoreUnavailable == ~deviceUp \/ ~RemoteRootExists \/ listFailed

\* the local listing holds the paths of the remote listing, each with the
\* size, content and time of the remote file
ListingsEqual ==
    /\ ListedRemote = {rel \in DOMAIN local : variant = "camera" => ~IsHidden(Last(rel))}
    /\ \A rel \in ListedRemote :
         \E p \in DOMAIN remoteFS :
            /\ remoteFS[p].kind = "file"
            /\ IsPrefix(rel, p) \/ Drop(p, Len(p) - Len(rel)) = rel
            /\ remoteFS[p].size = local[rel].size
            /\ remoteFS[p].tag = local[rel].tag
            /\ remoteFS[p].mtime = local[rel].mtime

\* C8: empty-plan fast path. A run over equal remote and local listings, both
\* empty included, issues no pull and ends as an overall success.
C8_EmptyPlanFastPath ==
    (/\ pc = "done"
     /\ report.kind # "adb_sync"
     /\ ~StoreUnavailable
     /\ pulls = <<>>
     /\ ListingsEqual)
        => exit = 0

\* C9: StoreUnavailable is fatal. A run whose remote root cannot be
\* enumerated ends with a non-zero exit status and has issued no pull.
C9_StoreUnavailableFatal ==
    (/\ pc = "done"
     /\ report.kind # "adb_sync"
     /\ StoreUnavailable)
        => exit # 0 /\ pulls = <<>>

\* C10: final exit status. A run whose remote root was enumerated exits
\* non-zero exactly when a pull of it failed or a fatal error occurred.
C10_ExitStatus ==
    (pc = "done" /\ report.kind # "adb_sync" /\ ~StoreUnavailable) =>
        (exit # 0 <=> (SomePullFailed \/ report.kind \in {"fatal", "crash"}))

\* the number of pulls a run issued for a relative path
PullCount(rel) == Cardinality({i \in 1..Len(pulls) : pulls[i].rel = rel})

\* C11: exactly-once attempt. In a run of camera.py sync_files or of adb-rsync
\* that reaches its final report, every file of the plan has had exactly one
\* pull issued, and the attempted total of the report is the number of pulls
\* the run issued.
C11_ExactlyOnce ==
    (/\ pc = "done" /\ planned
     /\ variant \in {"camera", "rsync"}
     /\ report.kind \in {"summary", "complete", "errors"})
        => /\ \A rel \in Plan : PullCount(rel) = 1
           /\ report.attempted = Len(pulls)

C13_ListModeIsDelta ==
    (pc = "done" /\ report.kind = "listed") =>
        \A p \in printed :
            ~UpToDate(local, Drop(p, Len(REMOTE_DIR)), MD5(remoteFS[p]))

\* the names every listing in progress holds: adb-rsync's frames
FrameEntries ==
    UNION {{<<stack[k].rdir, n>> : n \in Range(stack[k].files)} : k \in 1..Len(stack)}

\* C14: trash exclusion. No entry named by the trash convention is in a remote
\* listing or in the plan, and none is pulled, in every sync variant.
C14_TrashExcluded ==
    /\ \A rel \in remote_files \cup Range(to_download) : ~IsTrashed(Last(rel))
    /\ \A e \in FrameEntries : ~IsTrashed(e[2])
    /\ \A i \in 1..Len(pulls) : ~IsTrashed(Last(pulls[i].rel))

\* C15: listStore returns only regular files. A remote listing holds no
\* directory entry and no entry twice, every record of it stands for a regular
\* file, and get_file_list has a record for every regular file below the root
\* that is not trashed.
C15_ListStoreRegularFiles ==
    /\ \A e \in FrameEntries : IsRemoteFile(e[1] \o <<e[2]>>)
    /\ \A k \in 1..Len(stack) : \A i, j \in 1..Len(stack[k].files) :
           stack[k].files[i] = stack[k].files[j] => i = j
    /\ \A rel \in remote_files : RemoteSources(rel) # {}
    /\ (variant = "org" /\ pc = "diff") =>
           \A p \in DOMAIN remoteFS :
              (/\ remoteFS[p].kind = "file"
               /\ IsPrefix(REMOTE_DIR, p) /\ ~IsTrashed(Last(p)))
                  => Drop(p, Len(REMOTE_DIR)) \in remote_files

\* a step of the current run that lists a remote directory
ListingStep ==
    \/ variant \in {"camera", "org"} /\ pc = "list" /\ pc' # pc
    \/ variant = "rsync" /\ pc = "enter" /\ pc' # pc
    \/ /\ variant = "rsync" /\ pc = "walk"
       /\ Top.i <= Len(Top.files)
       /\ ~IsRemoteFile(Top.rdir \o <<Top.files[Top.i]>>)
       /\ stack' # stack

\* C16: phase ordering. No pull is issued before the run has its listings and
\* its plan, and no remote directory is listed once a pull has been issued.
C16_PhaseOrder ==
    [][/\ ((pulls' # pulls /\ pulls' # <<>>) => planned)
       /\ (pulls # <<>> => ~ListingStep)
      ]_vars

\* the transcode run has ended after handing its files to the pool
ScaleEnded == main_pc \in {"completed", "crashed"}

\* C17: worker failure isolation. Whatever happens to a task of the pool, a
\* non-zero ffmpeg exit or an exception out of process_file, every file that
\* was selected has been submitted and its task has run to its end when the
\* transcode run ends: no task is left queued, cancelled or half done.
C17_FailureIsolation ==
    ScaleEnded =>
        /\ Len(task_pc) = Len(mp4_files)
        /\ \A t \in 1..Len(task_pc) : task_pc[t] \in Ended

\* with one worker, the first task raised and the second, still queued then,
\* was converted all the same
C17_Witness ==
    /\ main_pc = "crashed" /\ threads = 1
    /\ Len(task_pc) = 2
    /\ task_pc[1] = "raised"
    /\ task_pc[2] = "converted"

\* C18: directory-creation race tolerance. No task ends on an error of its
\* mkdir: a worker that finds the date directory made by another worker, or
\* there from before, goes on to its conversion.
C18_MkdirRace ==
    \A t \in 1..Len(task_pc) : task_pc[t] # "mkdir_error"

\* two workers are past the mkdir of the same date directory at the same
\* time, the directory made in this run
C18_Witness ==
    /\ scale_run = 1 /\ Len(task_pc) = 2
    /\ task_pc[1] \in {"exists", "ffmpeg"}
    /\ task_pc[2] \in {"exists", "ffmpeg"}
    /\ extract_date(mp4_files[1]) = extract_date(mp4_files[2])
    /\ dst_files = {}

\* C19: join barrier. When 'Conversion completed!' is reported every
\* submitted task has ended, and the tasks submitted are the selected *.mp4
\* files, each exactly once.
C19_JoinBarrier ==
    main_pc = "completed" =>
        /\ \A t \in 1..Len(futures) : futures[t] = "finished" /\ task_pc[t] \in Ended
        /\ Len(futures) = Len(mp4_files)
        /\ Range(mp4_files) = Selected
        /\ \A i, j \in 1..Len(mp4_files) : mp4_files[i] = mp4_files[j] => i = j

\* two files were submitted, one failed in ffmpeg, and the run reported its
\* completion
C19_Witness ==
    /\ main_pc = "completed" /\ scale_exit = 0
    /\ Len(futures) = 2
    /\ \E t \in 1..2 : task_pc[t] = "failed"
    /\ \E t \in 1..2 : task_pc[t] = "converted"

\* the command line holds the options of the set given and no other
OnlyOptions(given) == \A o \in DOMAIN argv : argv[o] # "absent" <=> o \in given

\* C20: statistics mode is reachable. camera.py with only -l, alone or with a
\* valid date, shows the video list of the latest or the given date, and with
\* only -d shows the counts by date; neither ends in the error of the
\* statistics mode.
C20_StatisticsReachable ==
    cli_pc = "done" =>
        /\ (OnlyOptions({"last"}) /\ argv.last = "flag")
              => outcome = Did("show_last", 0, "None")
        /\ (OnlyOptions({"last"}) /\ argv.last = "20251109")
              => outcome = Did("show_last", 0, "20251109")
        /\ OnlyOptions({"date"}) => outcome = Did("show_date", 0, "None")

\* the options --sync is said not to go with
SyncExclusive ==
    {"date", "info", "merge", "files", "shorten", "slice", "shrink", "name",
     "text", "subtitle", "mute", "last"}

\* C22: --sync is exclusive. camera.py run with --sync and any of the other
\* processing options ends in the conflict error with status 1 and does not
\* start the sync.
C22_SyncExclusive ==
    (/\ cli_pc = "done"
     /\ outcome.action # "usage_error"
     /\ argv.sync = "given"
     /\ \E o \in SyncExclusive : argv[o] # "absent")
        => outcome = Did("sync_conflict", 1, "None")

\* C23: no-argument help. camera.py run without any option prints the help
\* and exits with status 0, and is_any_arg_used is false exactly for the
\* command line without options.
C23_NoArgumentHelp ==
    /\ (cli_pc = "done" /\ OnlyOptions({})) => outcome = Did("help", 0, "None")
    /\ cli_pc = "parsed" => (~is_any_arg_used(args) <=> OnlyOptions({}))

\* the entries sync_file may be handling: the names of the directory on top
TopEntries ==
    IF stack = <<>> THEN {} ELSE {Top.ldir \o <<n>> : n \in Range(Top.files)}

\* C24: hash-gated pull. sync_file leaves the pull out exactly when the local
\* file exists, the remote MD5 was obtained and the two digests are equal, and
\* then it counts the file as synced; in every other case it issues one pull,
\* for that file.
C24_HashGatedPull ==
    [][\A rel \in TopEntries :
          RsFileStep(rel) =>
             LET src == Top.rdir \o <<Top.files[Top.i]>>
                 gated == /\ rel \in DOMAIN local
                          /\ rel \in digests'
                          /\ MD5(local[rel]) = MD5(remoteFS[src])
             IN  /\ gated => /\ pulls' = pulls
                             /\ stack'[Len(stack)].success_count = Top.success_count + 1
                 /\ ~gated => /\ Len(pulls') = Len(pulls) + 1
                              /\ pulls'[Len(pulls')].rel = rel
      ]_vars

\* adb-rsync has left out the pull of a.mp4, whose digests agree, and pulled
\* sub/b.JPG, which the local folder lacked
C24_Witness ==
    /\ variant = "rsync" /\ pc = "done"
    /\ RelA \in digests
    /\ Len(pulls) = 1 /\ pulls[1].rel = RelB /\ pulls[1].ok
    /\ RelB \in DOMAIN local

\* C25: parent directory before fetch. Whenever a pull is issued, the local
\* directory its destination lies in exists, the directories above it too.
C25_ParentBeforeFetch ==
    [][(Len(pulls') = Len(pulls) + 1) =>
          LET rel == pulls'[Len(pulls')].rel
          IN  /\ Parents(rel) \subseteq localDirs'
              /\ (variant = "rsync" => Parents(rel) \subseteq localDirs)
      ]_vars

\* the pull of sub/b.JPG failed and left no file, and the directory sub made
\* for it is there
C25_Witness ==
    /\ \E i \in 1..Len(pulls) : pulls[i].rel = RelB /\ ~pulls[i].ok
    /\ \A rel \in DOMAIN local : Len(rel) = 1
    /\ <<D("sub")>> \in localDirs

\* C28: skip-existing transcode. No run invokes ffmpeg for a file whose
\* output existed in its date directory when the run began, so a run that
\* follows a run which left an output for every selected file with a date
\* invokes ffmpeg for none.
C28_SkipExisting ==
    /\ \A i \in 1..Len(ffmpeg_runs) : ffmpeg_runs[i] \notin dst_at_start
    /\ (/\ scale_run > 1
        /\ \A f \in Selected : extract_date(f) # "" => f \in dst_at_start)
          => ffmpeg_runs = <<>>

\* the second run has ended: it skipped both files, whose outputs the first
\* run had produced, and invoked ffmpeg for none
C28_Witness ==
    /\ scale_run = 2 /\ main_pc = "completed"
    /\ Len(task_pc) = 2
    /\ task_pc[1] = "skipped" /\ task_pc[2] = "skipped"
    /\ Name("20240101", "_b", "mp4") \in Range(mp4_files)
    /\ ffmpeg_runs = <<>>

\* C21: final video lands in output_file. Whenever merge_videos has merged the
\* matching videos, the video is at args.output_file when the run ends,
\* whatever its duration.
C21_FinalInOutput ==
    (ms_pc = "done" /\ ms_merged) =>
        /\ ms_args.output_file \in DOMAIN ms_cwd
        /\ ms_cwd[ms_args.output_file].kind = "video"

\* C26: chain-mode cleanup. When the merge-then-shorten/slice mode has ended,
\* on whatever path, neither the concat list file nor the intermediate merged
\* file exists in /tmp.
C26_ChainCleanup ==
    (ed_pc = "done" /\ is_chain_process(ed_args)) =>
        /\ concat_file \notin DOMAIN ed_fs
        /\ temp_merged_file \notin DOMAIN ed_fs

\* the merge succeeded and slice_video then left the program for a range whose
\* end is not after its start; both files are gone
C26_Witness ==
    /\ ed_pc = "done" /\ ed_exit = 1
    /\ is_chain_process(ed_args) /\ ed_args.shorten = 0
    /\ SliceCheck(ed_args.slice).error = "order"
    /\ ed_calls = <<Call("concat", temp_merged_file, "ok")>>
    /\ concat_file \notin DOMAIN ed_fs /\ temp_merged_file \notin DOMAIN ed_fs

\* a shorten_video that raises leaves the file it was given as it was
ShortenKeepsInputOnFailure ==
    \A f \in DOMAIN ed_fs, probed \in BOOLEAN, result \in FfmpegResults :
        LET r == shorten_video(ed_fs, f, ed_args.shorten, probed, result)
        IN  r.raised => f \in DOMAIN r.fs /\ r.fs[f] = ed_fs[f]

\* a round of shorten alone, for the names in the set: a failed ffmpeg leaves
\* the file it was to shorten unchanged; with -n the source file is unchanged
\* and a failed ffmpeg leaves no temporary copy
ShortenAloneKeepsSource(names) ==
    (ed_pc = "shorten" /\ Len(ed_calls') = Len(ed_calls) + 1) =>
        LET input_file == ed_files[ed_i]
            call == ed_calls'[Len(ed_calls')]
            kept == input_file \in DOMAIN ed_fs' /\ ed_fs'[input_file] = ed_fs[input_file]
        IN  /\ (ed_args.name = NoName /\ call.outcome = "failed") => kept
            /\ ed_args.name \in names => kept
            /\ (ed_args.name # NoName /\ call.outcome = "failed")
                    => TempCopy(input_file) \notin DOMAIN ed_fs'

\* C27 as stated: shorten never corrupts its input on failure, and in
\* stand-alone shorten with -n, whatever the name, the source file is never
\* modified and the temporary copy is removed on failure.
C27_SourceNeverModified ==
    [][ShortenKeepsInputOnFailure
       /\ ShortenAloneKeepsSource({ed_args.name} \ {NoName})
    ]_vars

\* C27, amended: shorten never corrupts its input on failure, and in
\* stand-alone shorten with -n naming another file than the source, the
\* source file is never modified and the temporary copy is removed on failure.
C27_ShortenKeepsInput ==
    [][ShortenKeepsInputOnFailure
       /\ ShortenAloneKeepsSource({ed_args.name} \ {NoName, ed_files[ed_i]})
    ]_vars

\* shorten alone with -n out.mp4 has ended after its ffmpeg failed: the source
\* is as it was and its temporary copy is gone
C27_Witness ==
    /\ ed_pc = "done" /\ ed_args.name = P(".", <<"out">>, "mp4")
    /\ ed_calls = <<Call("shorten", TempCopy(ClipA), "failed")>>
    /\ ClipA \in DOMAIN ed_fs /\ ed_fs[ClipA].kind = "source"
    /\ TempCopy(ClipA) \notin DOMAIN ed_fs

====
